---- MODULE Spec2Model ----
(***************************************************************************)
(* A model of xplane_airports/AptDat.py: the apt.dat line classifier       *)
(* (AptDatLine), the airport record (Airport) and the container (AptDat).  *)
(*                                                                         *)
(* Representation.  A Python str is a sequence of atoms.  An atom is the   *)
(* space character SP, the newline NL, or a word: a non-empty run of       *)
(* characters holding no whitespace.  Two adjacent words are the text of   *)
(* their concatenation.  A float is a fixed-point integer counting eighths  *)
(* (47.5 is 380); the decimal words used have at most two binary places,   *)
(* which keeps 0.5 * (a + b) exact.  A row code, int or str in Python, is  *)
(* a record [isint, n, s].                                                 *)
(***************************************************************************)
EXTENDS Integers, Sequences, FiniteSets, TLC

VARIABLES
    apt_dat_text,   \* the list of raw lines handed to the operation under study
    airports,       \* AptDat.airports of the container under study
    apt,            \* the Airport built by Airport.from_lines / from_str
    file,           \* the text written by write_to_disk
    op,             \* the operation performed last
    arg,            \* its argument
    ret,            \* what it returned
    err             \* the exception it raised, "none" when it returned

vars == <<apt_dat_text, airports, apt, file, op, arg, ret, err>>

----------------------------------------------------------------------------
(* Bounds of the model.                                                    *)

MaxLines == 3       \* lines of an input text
MaxPayload == 2     \* lines after the header line of an airport under study
MaxAirports == 3    \* airports in the container under study
MaxOther == 2       \* airports in the second operand of a concatenation

----------------------------------------------------------------------------
(* Python's str operations on atom sequences.                              *)

SP == " "
WED_LINE_ENDING == "\n"
NL == WED_LINE_ENDING

IsWhite(a) == a \in {SP, NL}

RECURSIVE lstrip(_)
lstrip(s) == IF s = <<>> \/ ~IsWhite(Head(s)) THEN s ELSE lstrip(Tail(s))

RECURSIVE rstrip(_)
rstrip(s) ==
    IF s = <<>> \/ ~IsWhite(s[Len(s)]) THEN s ELSE rstrip(SubSeq(s, 1, Len(s) - 1))

\* str.strip()
strip(s) == rstrip(lstrip(s))

\* The text of a run of adjacent words, as one word ("" for the empty run).
RECURSIVE Flat(_)
Flat(piece) == IF piece = <<>> THEN "" ELSE Head(piece) \o Flat(Tail(piece))

\* The pieces of s between the occurrences of the atom sep, each an atom
\* sequence; n + 1 pieces for n occurrences, as str.split(sep) gives.
RECURSIVE Pieces(_, _, _)
Pieces(s, sep, cur) ==
    IF s = <<>> THEN <<cur>>
    ELSE IF Head(s) = sep THEN <<cur>> \o Pieces(Tail(s), sep, <<>>)
    ELSE Pieces(Tail(s), sep, Append(cur, Head(s)))

\* str.split(' '): the pieces between single spaces, each as one word.
split(s) == LET p == Pieces(s, SP, <<>>) IN [i \in 1..Len(p) |-> Flat(p[i])]

\* str.splitlines(): the lines of a text, without their line endings; a
\* final line ending opens no further line, and the empty text has no line.
splitlines(s) ==
    LET p == Pieces(s, NL, <<>>)
    IN  IF p[Len(p)] = <<>> THEN SubSeq(p, 1, Len(p) - 1) ELSE p

\* re.sub(' +', ' ', s): every run of spaces becomes one space.
RECURSIVE collapse(_)
collapse(s) ==
    IF s = <<>> THEN <<>>
    ELSE IF Head(s) = SP /\ Len(s) > 1 /\ s[2] = SP THEN collapse(Tail(s))
    ELSE <<Head(s)>> \o collapse(Tail(s))

\* sep.join(parts), the parts being atom sequences.
RECURSIVE join(_, _)
join(sep, parts) ==
    IF parts = <<>> THEN <<>>
    ELSE IF Len(parts) = 1 THEN parts[1]
    ELSE parts[1] \o <<sep>> \o join(sep, Tail(parts))

\* sub in s, for two str.
Contains(s, sub) ==
    \E i \in 1..(Len(s) - Len(sub) + 1) : SubSeq(s, i, i + Len(sub) - 1) = sub

\* int(w) on the words the model uses; a word outside the table raises
\* ValueError.
IntVal ==
    ("0" :> 0) @@ ("1" :> 1) @@ ("10" :> 10) @@ ("16" :> 16) @@ ("17" :> 17) @@
    ("20" :> 20) @@ ("34" :> 34) @@ ("46" :> 46) @@ ("48" :> 48) @@
    ("99" :> 99) @@ ("100" :> 100) @@ ("101" :> 101) @@ ("102" :> 102) @@
    ("1100" :> 1100) @@ ("1200" :> 1200) @@ ("-118" :> -118) @@
    ("-120" :> -120) @@ ("-122" :> -122)

IsInt(w) == w \in DOMAIN IntVal

\* float(w) in eighths: every int word, and the decimal words.
DecimalVal == ("10.5" :> 84) @@ ("34.5" :> 276) @@ ("-118.25" :> -946)

IsFloat(w) == IsInt(w) \/ w \in DOMAIN DecimalVal

float(w) == IF IsInt(w) THEN 8 * IntVal[w] ELSE DecimalVal[w]

\* str.upper() of a word; the words outside the table hold no lower-case
\* letter.
UpperVal ==
    ("ksea" :> "KSEA") @@ ("Sea" :> "SEA") @@ ("sea" :> "SEA") @@
    ("Lake" :> "LAKE") @@ ("Heli" :> "HELI") @@ ("Ghost" :> "GHOST") @@
    ("Generated" :> "GENERATED") @@ ("by" :> "BY") @@
    ("WorldEditor" :> "WORLDEDITOR") @@ ("Version" :> "VERSION") @@
    ("kbfi" :> "KBFI")

upper_word(w) == IF w \in DOMAIN UpperVal THEN UpperVal[w] ELSE w

\* str.upper() of a text.
upper(s) == [i \in 1..Len(s) |-> upper_word(s[i])]

----------------------------------------------------------------------------
(* class AptDatLine                                                        *)

IntCode(n) == [isint |-> TRUE, n |-> n, s |-> ""]
StrCode(w) == [isint |-> FALSE, n |-> 0, s |-> w]

\* AptDatLine.__init__: the row code is the first space-delimited piece of
\* the stripped text, as an int when int() accepts it.
row_code_of(line_text) ==
    LET w == split(strip(line_text))[1]
    IN  IF IsInt(w) THEN IntCode(IntVal[w]) ELSE StrCode(w)

\* AptDatLine keeping the normalised text of the line in place of the raw text.
AptDatLine_normalising(line_text) ==
    [raw |-> collapse(strip(line_text)), row_code |-> row_code_of(line_text)]

AptDatLine(line_text) == [raw |-> line_text, row_code |-> row_code_of(line_text)]

LAND_RUNWAY == 100
WATER_RUNWAY == 101
HELIPAD == 102

is_runway(line) ==
    line.row_code.isint /\ line.row_code.n \in {LAND_RUNWAY, WATER_RUNWAY, HELIPAD}

is_airport_header(line) == line.row_code.isint /\ line.row_code.n \in {1, 16, 17}

Banner == <<"Generated", SP, "by", SP, "WorldEditor">>

is_file_header(line) ==
    \/ ~line.row_code.isint /\ line.row_code.s \in {"I", "A"}
    \/ Contains(line.raw, Banner)

is_ignorable(line) ==
    \/ line.row_code.isint /\ line.row_code.n = 99
    \/ is_file_header(line)
    \/ strip(line.raw) = <<>>

\* AptDatLine.__str__
line_str(line) == collapse(strip(line.raw))

\* AptDatLine.tokens
tokens(line) == split(line_str(line))

\* AptDatLine.__bool__
line_bool(line) == ~is_ignorable(line)

----------------------------------------------------------------------------
(* class Airport                                                           *)

Airport(name, id, from_file, has_atc, elevation_ft_amsl, text) ==
    [name |-> name, id |-> id, from_file |-> from_file, has_atc |-> has_atc,
     elevation_ft_amsl |-> elevation_ft_amsl, text |-> text]

\* What stands in the apt field of a result that carries an exception.
NoAirport == Airport(<<>>, "", "", FALSE, 0, <<>>)

Raised(e) == [err |-> e, apt |-> NoAirport]
Returned(a) == [err |-> "none", apt |-> a]

\* Airport.__bool__
airport_bool(a) == a.id # ""

\* Airport.__str__
airport_str(a) == join(WED_LINE_ENDING, [i \in 1..Len(a.text) |-> a.text[i].raw])

\* The Airport(...) call of from_lines, its keyword arguments evaluated in
\* the order written: tokens[5:], tokens[4], float(tokens[1]), int(tokens[2]).
airport_of_header(header, lines, from_file_name) ==
    LET t == tokens(header)
    IN  IF Len(t) < 5 THEN Raised("IndexError")
        ELSE IF ~IsFloat(t[2]) THEN Raised("ValueError")
        ELSE IF ~IsInt(t[3]) THEN Raised("ValueError")
        ELSE Returned(Airport(join(SP, [i \in 1..(Len(t) - 5) |-> <<t[i + 5]>>]),
                              t[5], from_file_name, IntVal[t[3]] # 0,
                              float(t[2]), lines))

\* Airport.from_lines, on AptDatLine objects.
from_lines(lines, from_file_name) ==
    LET apt_header_lines == SelectSeq(lines, is_airport_header)
    IN  IF Len(apt_header_lines) = 0 THEN Raised("AssertionError")
        ELSE IF Len(apt_header_lines) # 1 THEN Raised("AssertionError")
        ELSE airport_of_header(apt_header_lines[1], lines, from_file_name)

\* Airport.has_row_code: codes is the set of the row codes asked for (one
\* code for an int or a str argument).  any() takes the truth value of the
\* lines the generator yields.
has_row_code(a, codes) ==
    \E i \in 1..Len(a.text) : a.text[i].row_code \in codes /\ line_bool(a.text[i])

Value(v) == [err |-> "none", val |-> v]
Fails(e) == [err |-> e, val |-> 0]

\* float(tokens[k]), k counted from 0 as in the source.
float_token(t, k) ==
    IF Len(t) <= k THEN Fails("IndexError")
    ELSE IF ~IsFloat(t[k + 1]) THEN Fails("ValueError")
    ELSE Value(float(t[k + 1]))

\* 0.5 * (float(tokens[j]) + float(tokens[k]))
mean_of_tokens(t, j, k) ==
    LET x == float_token(t, j)
        y == float_token(t, k)
    IN  IF x.err # "none" THEN x
        ELSE IF y.err # "none" THEN y
        ELSE Value((x.val + y.val) \div 2)

\* AptDatLine.runway_type, as the row code of the RunwayType.
runway_type(line) == line.row_code.n

\* latitude with the last runway line taken instead of the first.
latitude_of_last_runway(a) ==
    LET runways == SelectSeq(a.text, is_runway)
    IN  IF runways = <<>> THEN Fails("AssertionError")
        ELSE LET rwy_0 == runways[Len(runways)]
             IN  IF runway_type(rwy_0) = LAND_RUNWAY
                     THEN mean_of_tokens(tokens(rwy_0), 9, 18)
                 ELSE IF runway_type(rwy_0) = WATER_RUNWAY
                     THEN mean_of_tokens(tokens(rwy_0), 4, 7)
                 ELSE float_token(tokens(rwy_0), 2)

\* Airport.latitude
latitude(a) ==
    LET runways == SelectSeq(a.text, is_runway)
    IN  IF runways = <<>> THEN Fails("AssertionError")
        ELSE LET rwy_0 == runways[1]
             IN  IF runway_type(rwy_0) = LAND_RUNWAY
                     THEN mean_of_tokens(tokens(rwy_0), 9, 18)
                 ELSE IF runway_type(rwy_0) = WATER_RUNWAY
                     THEN mean_of_tokens(tokens(rwy_0), 4, 7)
                 ELSE float_token(tokens(rwy_0), 2)

\* Airport.longitude
longitude(a) ==
    LET runways == SelectSeq(a.text, is_runway)
    IN  IF runways = <<>> THEN Fails("AssertionError")
        ELSE LET rwy_0 == runways[1]
             IN  IF runway_type(rwy_0) = LAND_RUNWAY
                     THEN mean_of_tokens(tokens(rwy_0), 10, 19)
                 ELSE IF runway_type(rwy_0) = WATER_RUNWAY
                     THEN mean_of_tokens(tokens(rwy_0), 5, 8)
                 ELSE float_token(tokens(rwy_0), 3)

\* The text Airport.write_to_disk writes to the file.
airport_write_to_disk(a) ==
    <<"I", WED_LINE_ENDING>>
    \o <<"1100", SP, "Generated", SP, "by", SP, "WorldEditor", WED_LINE_ENDING,
         WED_LINE_ENDING>>
    \o airport_str(a)
    \o <<"99", WED_LINE_ENDING>>

\* Airport.from_str
from_str(file_text, from_file_name) ==
    LET ls == splitlines(file_text)
    IN  from_lines([i \in 1..Len(ls) |-> AptDatLine(ls[i])], from_file_name)

----------------------------------------------------------------------------
(* class AptDat: parsing                                                   *)

\* parse_step with the boundary treated as a discard: a header line drops
\* the lines gathered so far instead of finishing off the previous airport.
parse_step_discarding(st, line, from_file) ==
    IF st.err # "none" THEN st
    ELSE IF is_airport_header(line) THEN [st EXCEPT !.apt_lines = <<line>>]
    ELSE IF ~is_ignorable(line) THEN [st EXCEPT !.apt_lines = Append(@, line)]
    ELSE st

\* One pass of the loop of _parse_text over a line: st holds apt_lines,
\* self.airports and the exception raised so far.
parse_step(st, line, from_file) ==
    IF st.err # "none" THEN st
    ELSE IF is_airport_header(line) THEN
        IF st.apt_lines # <<>> THEN
            LET r == from_lines(st.apt_lines, from_file)
            IN  IF r.err # "none" THEN [st EXCEPT !.err = r.err]
                ELSE [st EXCEPT !.airports = Append(@, r.apt), !.apt_lines = <<line>>]
        ELSE [st EXCEPT !.apt_lines = <<line>>]
    ELSE IF ~is_ignorable(line) THEN [st EXCEPT !.apt_lines = Append(@, line)]
    ELSE st

\* The statement after the loop: finish off the final airport.
parse_finish(st, from_file) ==
    IF st.err # "none" \/ st.apt_lines = <<>> THEN st
    ELSE LET r == from_lines(st.apt_lines, from_file)
         IN  IF r.err # "none" THEN [st EXCEPT !.err = r.err]
             ELSE [st EXCEPT !.airports = Append(@, r.apt)]

RECURSIVE parse_loop(_, _, _)
parse_loop(st, text_lines, from_file) ==
    IF text_lines = <<>> THEN st
    ELSE parse_loop(parse_step(st, AptDatLine(Head(text_lines)), from_file),
                    Tail(text_lines), from_file)

\* AptDat._parse_text on a list of lines, self.airports being self_airports:
\* the airports of self afterwards and the exception raised, if any.
_parse_text(self_airports, text_lines, from_file) ==
    LET st0 == [err |-> "none", apt_lines |-> <<>>, airports |-> self_airports]
        st == parse_finish(parse_loop(st0, text_lines, from_file), from_file)
    IN  [err |-> st.err, airports |-> st.airports]

\* AptDat.from_file_text on a str.
from_file_text(apt_dat_file_text, from_file) ==
    _parse_text(<<>>, splitlines(apt_dat_file_text), from_file)

----------------------------------------------------------------------------
(* The lines the inputs are drawn from.                                    *)

\* ' '.join(words) for a list of words.
W(words) == join(SP, [i \in 1..Len(words) |-> <<words[i]>>])

FromFile == "apt.dat"

Line_KSEA == W(<<"1", "10.5", "1", "0", "KSEA", "Sea">>)
\* leading space and a double space in the name
Line_ksea == <<SP>> \o W(<<"16", "0", "0", "0", "ksea", "Lake">>) \o <<SP, SP, "Sea">>
\* a header line with no name token, and one whose name is another's id
Line_KBFI == W(<<"17", "20", "0", "0", "KBFI">>)
Line_KPAE == W(<<"1", "0", "0", "0", "KPAE", "KSEA">>)
\* header lines from_lines cannot decode
Line_short_header == W(<<"17", "0", "0">>)
Line_bad_elevation == W(<<"1", "Sea", "0", "0", "KBFI">>)
Line_bad_atc == W(<<"1", "0", "10.5", "0", "KBFI">>)
\* a header line whose airport name holds the banner text
Line_banner_header == W(<<"1", "0", "0", "0", "KBFI", "Generated", "by", "WorldEditor">>)
Line_helipad == W(<<"102", "H1", "34.5", "-118.25">>)
\* the same with two leading spaces, a double space and a trailing space
Line_helipad_spaced ==
    <<SP, SP, "102", SP, SP>> \o W(<<"H2", "46", "-122">>) \o <<SP>>
Line_helipad_bad == W(<<"102", "H3", "Sea", "0">>)
\* land runways: tokens 9 and 10 hold one end, tokens 18 and 19 the other
Line_land ==
    W(<<"100", "0", "0", "0", "0", "0", "0", "0", "16L", "46", "-122",
        "0", "0", "0", "0", "0", "0", "34R", "48", "-120">>)
Line_land_point ==
    W(<<"100", "0", "0", "0", "0", "0", "0", "0", "16L", "34", "-118",
        "0", "0", "0", "0", "0", "0", "34R", "34", "-118", "0">>)
\* a land runway line cut short after token 18
Line_land_cut ==
    W(<<"100", "0", "0", "0", "0", "0", "0", "0", "16L", "46", "-122",
        "0", "0", "0", "0", "0", "0", "34R", "48">>)
\* water runway: tokens 4 and 5 hold one end, tokens 7 and 8 the other
Line_water == W(<<"101", "0", "0", "08", "46", "-122", "26", "34.5", "-118.25">>)
Line_taxi == W(<<"1200">>)
Line_version == W(<<"1100", "Version">>)
Line_I == W(<<"I">>)
Line_banner == W(<<"1100", "Generated", "by", "WorldEditor">>)
Line_blank == <<SP>>
Line_99 == W(<<"99">>)

\* The sequences of at most n elements of S.
SeqsUpTo(S, n) == UNION {[1..k -> S] : k \in 0..n}

----------------------------------------------------------------------------
(* Parsing: _parse_text, from_lines and from_str on a list of lines.       *)

\* Line_ksea comes with the line ending that readlines() keeps.
ParseCorpus ==
    {Line_KSEA, Line_ksea \o <<NL>>, Line_short_header, Line_bad_elevation, Line_bad_atc,
     Line_banner_header, Line_helipad, Line_taxi, Line_version, Line_I,
     Line_banner, Line_blank, Line_99}

Idle ==
    /\ airports = <<>>
    /\ apt = NoAirport
    /\ file = <<>>
    /\ op = "init"
    /\ arg = <<>>
    /\ ret = <<>>
    /\ err = "none"

InitParse ==
    /\ apt_dat_text \in SeqsUpTo(ParseCorpus, MaxLines)
    /\ Idle

\* AptDat()._parse_text(apt_dat_text, from_file), apt_dat_text a list.
ParseText ==
    /\ op = "init"
    /\ LET r == _parse_text(airports, apt_dat_text, FromFile)
       IN  /\ airports' = r.airports
           /\ err' = r.err
    /\ op' = "_parse_text"
    /\ UNCHANGED <<apt_dat_text, apt, file, arg, ret>>

\* Airport.from_lines(apt_dat_text, from_file), the lines given as str.
FromLines ==
    /\ op = "init"
    /\ LET r == from_lines([i \in 1..Len(apt_dat_text) |-> AptDatLine(apt_dat_text[i])],
                           FromFile)
       IN  /\ apt' = r.apt
           /\ err' = r.err
    /\ op' = "from_lines"
    /\ UNCHANGED <<apt_dat_text, airports, file, arg, ret>>

\* Airport.from_str(text, from_file), text being the lines joined by
\* newlines, with or without a line ending after the last line.
FromStr ==
    /\ op = "init"
    /\ \E ending \in {<<>>, <<NL>>} : arg' = join(NL, apt_dat_text) \o ending
    /\ LET r == from_str(arg', FromFile)
       IN  /\ apt' = r.apt
           /\ err' = r.err
    /\ op' = "from_str"
    /\ UNCHANGED <<apt_dat_text, airports, file, ret>>

NextParse == ParseText \/ FromLines \/ FromStr

SpecParse == InitParse /\ [][NextParse]_vars

\* The input lines, classified.
In(i) == AptDatLine(apt_dat_text[i])

InputIdx == 1..Len(apt_dat_text)

HeaderIdx == {i \in InputIdx : is_airport_header(In(i))}

\* The k-th header line of the input, in input order.
NthHeader(k) == CHOOSE i \in HeaderIdx : Cardinality({j \in HeaderIdx : j < i}) = k - 1

\* Where the segment opened by the header line at i ends.
SegmentEnd(i) ==
    IF \E j \in HeaderIdx : j > i
    THEN (CHOOSE j \in HeaderIdx : j > i /\ \A h \in HeaderIdx : h > i => j <= h) - 1
    ELSE Len(apt_dat_text)

NotIgnorableIn(i) == ~is_ignorable(In(i))

\* The header line at i, then the non-ignorable lines up to the next header.
ExpectedPayload(i) ==
    LET body == {j \in (i + 1)..SegmentEnd(i) : NotIgnorableIn(j)}
        nth(k) == CHOOSE j \in body : Cardinality({h \in body : h < j}) = k - 1
    IN  <<In(i)>> \o [k \in 1..Cardinality(body) |-> In(nth(k))]

FirstNonIgnorableIsHeader ==
    \E i \in InputIdx :
        /\ NotIgnorableIn(i)
        /\ is_airport_header(In(i))
        /\ \A j \in 1..(i - 1) : ~NotIgnorableIn(j)

\* A header line from_lines can decode: five tokens or more, a decimal
\* elevation and an integer ATC flag.
DecodableHeader(line) ==
    LET t == tokens(line)
    IN  Len(t) >= 5 /\ IsFloat(t[2]) /\ IsInt(t[3])

Segmented ==
    /\ err = "none"
    /\ Len(airports) = Cardinality(HeaderIdx)
    /\ \A k \in 1..Len(airports) : airports[k].text = ExpectedPayload(NthHeader(k))

\* C1: an input with no airport-header line parses without error to zero
\* airports, whatever other lines it holds.
C1_NoHeaderNoAirports ==
    (op = "_parse_text" /\ HeaderIdx = {}) => (err = "none" /\ airports = <<>>)

\* C2 as claimed: when the first non-ignorable line is a header line,
\* _parse_text yields one airport per header line, in order, each with the
\* header followed by the non-ignorable lines up to the next header.
C2_SegmentationAnyHeader ==
    (op = "_parse_text" /\ FirstNonIgnorableIsHeader) => Segmented

\* C2 amended: the same, for inputs whose header lines can all be decoded
\* (five tokens or more, decimal elevation, integer ATC flag).
C2_Segmentation ==
    (/\ op = "_parse_text"
     /\ FirstNonIgnorableIsHeader
     /\ \A i \in HeaderIdx : DecodableHeader(In(i))) => Segmented

\* Two consecutive header lines, the first with a one-line payload, then a
\* payload line and a dropped ignorable line.
C2_Witness ==
    /\ op = "_parse_text"
    /\ FirstNonIgnorableIsHeader
    /\ \A i \in HeaderIdx : DecodableHeader(In(i))
    /\ Len(airports) = 2
    /\ Len(airports[1].text) = 1
    /\ \E i \in InputIdx : ~NotIgnorableIn(i) /\ ~is_airport_header(In(i))

\* C3: after _parse_text no line of any airport's payload is ignorable, the
\* header line included.
C3_NoIgnorableInPayload ==
    op = "_parse_text" =>
        \A k \in 1..Len(airports) :
            \A i \in 1..Len(airports[k].text) : ~is_ignorable(airports[k].text[i])

HeadersOf(text) == {i \in 1..Len(text) : is_airport_header(text[i])}

\* C4: an Airport built by from_lines, from_str or _parse_text holds exactly
\* one header line, at position 0; a segment with no header line or with
\* several makes from_lines and from_str fail.
C4_OneHeaderAtFront ==
    /\ op = "_parse_text" =>
           \A k \in 1..Len(airports) : HeadersOf(airports[k].text) = {1}
    /\ op \in {"from_lines", "from_str"} =>
           /\ err = "none" => HeadersOf(apt.text) = {1}
           /\ Cardinality(HeaderIdx) # 1 => err # "none"

----------------------------------------------------------------------------
(* class AptDat: writing                                                   *)

RECURSIVE write_airports(_)
write_airports(apts) ==
    IF apts = <<>> THEN <<>>
    ELSE airport_str(Head(apts)) \o <<WED_LINE_ENDING, WED_LINE_ENDING>>
         \o write_airports(Tail(apts))

\* The text AptDat.write_to_disk writes to the file.
aptdat_write_to_disk(self_airports) ==
    <<"I", WED_LINE_ENDING>>
    \o <<"1100", SP, "Generated", SP, "by", SP, "WorldEditor", WED_LINE_ENDING,
         WED_LINE_ENDING>>
    \o write_airports(self_airports)
    \o <<"99", WED_LINE_ENDING>>

----------------------------------------------------------------------------
(* Text round trips: from_str and str, write_to_disk and parsing back.     *)

TextCorpus ==
    {Line_KSEA, Line_ksea, Line_short_header, Line_helipad, Line_helipad_spaced,
     Line_taxi, Line_blank, Line_99}

InitText ==
    /\ apt_dat_text \in SeqsUpTo(TextCorpus, MaxLines)
    /\ Idle

\* str(apt) of the Airport from_str built.
Str ==
    /\ op = "from_str"
    /\ err = "none"
    /\ ret' = airport_str(apt)
    /\ op' = "str"
    /\ UNCHANGED <<apt_dat_text, airports, apt, file, arg, err>>

\* apt.write_to_disk(path) of the Airport from_str built.
AirportWriteToDisk ==
    /\ op = "from_str"
    /\ err = "none"
    /\ file' = airport_write_to_disk(apt)
    /\ op' = "Airport.write_to_disk"
    /\ UNCHANGED <<apt_dat_text, airports, apt, arg, ret, err>>

\* AptDat.from_file_text(text, from_file), text as for FromStr.
FromFileText ==
    /\ op = "init"
    /\ \E ending \in {<<>>, <<NL>>} : arg' = join(NL, apt_dat_text) \o ending
    /\ LET r == from_file_text(arg', FromFile)
       IN  /\ airports' = r.airports
           /\ err' = r.err
    /\ op' = "from_file_text"
    /\ UNCHANGED <<apt_dat_text, apt, file, ret>>

\* self.write_to_disk(path) of the container from_file_text built.
AptDatWriteToDisk ==
    /\ op = "from_file_text"
    /\ err = "none"
    /\ file' = aptdat_write_to_disk(airports)
    /\ op' = "AptDat.write_to_disk"
    /\ UNCHANGED <<apt_dat_text, airports, apt, arg, ret, err>>

\* AptDat.from_file_text on the text of the file written: ret is the new
\* container's airports, arg the operation that wrote the file.
ReadBack ==
    /\ op \in {"Airport.write_to_disk", "AptDat.write_to_disk"}
    /\ LET r == from_file_text(file, FromFile)
       IN  /\ ret' = r.airports
           /\ err' = r.err
    /\ arg' = op
    /\ op' = "read_back"
    /\ UNCHANGED <<apt_dat_text, airports, apt, file>>

NextText ==
    FromStr \/ Str \/ AirportWriteToDisk \/ FromFileText \/ AptDatWriteToDisk \/ ReadBack

SpecText == InitText /\ [][NextText]_vars

RunwayIdx == {i \in InputIdx : is_runway(In(i))}

\* One header line, decodable, and at least one runway line.
WellFormedSingleAirport ==
    /\ Cardinality(HeaderIdx) = 1
    /\ \A i \in HeaderIdx : DecodableHeader(In(i))
    /\ RunwayIdx # {}

\* C5: from_str of a text of one header line and at least one runway line
\* succeeds, and str() of the Airport is the original lines, raw text and
\* whitespace unchanged, joined by single newlines.
C5_RoundTrip ==
    /\ (op = "from_str" /\ WellFormedSingleAirport) => err = "none"
    /\ (op = "str" /\ WellFormedSingleAirport) => ret = join(NL, apt_dat_text)

\* A round trip of a text with a line whose whitespace normalisation changes.
C5_Witness ==
    /\ op = "str"
    /\ WellFormedSingleAirport
    /\ \E i \in InputIdx : line_str(In(i)) # apt_dat_text[i]
    /\ arg # ret

\* The airports a write_to_disk wrote, by the operation that wrote them.
Written(writer) == IF writer = "Airport.write_to_disk" THEN <<apt>> ELSE airports

Raws(text) == [i \in 1..Len(text) |-> text[i].raw]

RECURSIVE AllRaws(_)
AllRaws(apts) == IF apts = <<>> THEN <<>> ELSE Raws(Head(apts).text) \o AllRaws(Tail(apts))

NotEmptyLine(l) == l # <<>>

\* The layout the file has: "I", the banner, a blank line, the payload
\* lines, and "99" as the last line.
FileLayout(writer) ==
    LET L == splitlines(file)
    IN  /\ Len(L) >= 4
        /\ L[1] = <<"I">>
        /\ L[2] = W(<<"1100", "Generated", "by", "WorldEditor">>)
        /\ L[3] = <<>>
        /\ L[Len(L)] = <<"99">>
        /\ SelectSeq(SubSeq(L, 4, Len(L) - 1), NotEmptyLine) = AllRaws(Written(writer))

\* C6: both write_to_disk write "I", the banner, a blank line, the payload
\* lines and "99" on a line of its own, and parsing the text back gives
\* airports with the raw payload lines that were written.
C6_WriteLayoutAndReadBack ==
    /\ op \in {"Airport.write_to_disk", "AptDat.write_to_disk"} => FileLayout(op)
    /\ op = "read_back" =>
           /\ err = "none"
           /\ Len(ret) = Len(Written(arg))
           /\ \A k \in 1..Len(ret) : Raws(ret[k].text) = Raws(Written(arg)[k].text)

----------------------------------------------------------------------------
(* One airport: latitude, longitude and has_row_code of an Airport built   *)
(* by from_lines from the lines given.                                     *)

AirportCorpus ==
    {Line_KSEA, Line_land, Line_land_point, Line_land_cut, Line_water,
     Line_helipad, Line_helipad_spaced, Line_helipad_bad, Line_taxi, Line_99,
     Line_I}

InitAirport ==
    /\ apt_dat_text \in SeqsUpTo(AirportCorpus, MaxPayload + 1)
    /\ Idle

Latitude ==
    /\ op = "from_lines"
    /\ err = "none"
    /\ LET r == latitude(apt)
       IN  /\ ret' = r.val
           /\ err' = r.err
    /\ op' = "latitude"
    /\ UNCHANGED <<apt_dat_text, airports, apt, file, arg>>

Longitude ==
    /\ op = "from_lines"
    /\ err = "none"
    /\ LET r == longitude(apt)
       IN  /\ ret' = r.val
           /\ err' = r.err
    /\ op' = "longitude"
    /\ UNCHANGED <<apt_dat_text, airports, apt, file, arg>>

\* The arguments has_row_code is called with: an int, a str, or a list of
\* int, each as the set of row codes it names.
RowCodeArgs ==
    {{IntCode(99)}, {StrCode("I")}, {IntCode(1)}, {IntCode(1200)}, {IntCode(20)},
     {IntCode(100), IntCode(101), IntCode(102)}, {IntCode(1400), IntCode(1401), IntCode(1200)}}

HasRowCode ==
    /\ op = "from_lines"
    /\ err = "none"
    /\ \E codes \in RowCodeArgs :
           /\ arg' = codes
           /\ ret' = has_row_code(apt, codes)
    /\ op' = "has_row_code"
    /\ UNCHANGED <<apt_dat_text, airports, apt, file, err>>

NextAirport == FromLines \/ Latitude \/ Longitude \/ HasRowCode

SpecAirport == InitAirport /\ [][NextAirport]_vars

PayloadRunways == {i \in 1..Len(apt.text) : is_runway(apt.text[i])}

\* The first runway line of the payload, in payload order.
FirstRunway == apt.text[CHOOSE i \in PayloadRunways : \A j \in PayloadRunways : i <= j]

\* Token k (from 0) of the first runway line is there and is a number.
Num(k) == LET t == tokens(FirstRunway) IN Len(t) > k /\ IsFloat(t[k + 1])
Tok(k) == float(tokens(FirstRunway)[k + 1])

\* The accessor returned the mean of tokens j and k of the first runway
\* line, or failed when one of them is missing or no number.
IsMean(j, k) ==
    IF Num(j) /\ Num(k) THEN err = "none" /\ 2 * ret = Tok(j) + Tok(k)
    ELSE err \in {"IndexError", "ValueError"}

\* The accessor returned token k of the first runway line, or failed.
IsToken(k) ==
    IF Num(k) THEN err = "none" /\ ret = Tok(k)
    ELSE err \in {"IndexError", "ValueError"}

\* C7: latitude and longitude come from the first runway line of the
\* payload, by the token positions of its runway type (land 9/18 and 10/19
\* averaged, water 4/7 and 5/8 averaged, helipad 2 and 3); with no runway
\* line both fail.
C7_FirstRunwayGeometry ==
    op \in {"latitude", "longitude"} =>
        IF PayloadRunways = {} THEN err = "AssertionError"
        ELSE LET code == FirstRunway.row_code.n
             IN  /\ (op = "latitude" /\ code = 100) => IsMean(9, 18)
                 /\ (op = "latitude" /\ code = 101) => IsMean(4, 7)
                 /\ (op = "latitude" /\ code = 102) => IsToken(2)
                 /\ (op = "longitude" /\ code = 100) => IsMean(10, 19)
                 /\ (op = "longitude" /\ code = 101) => IsMean(5, 8)
                 /\ (op = "longitude" /\ code = 102) => IsToken(3)

\* A latitude taken from a land runway that a runway of another type follows.
C7_Witness ==
    /\ op = "latitude"
    /\ err = "none"
    /\ Cardinality(PayloadRunways) = 2
    /\ FirstRunway.row_code.n = 100
    /\ \E i \in PayloadRunways : apt.text[i].row_code.n = 102

\* C10: has_row_code(c) is True exactly when some payload line has a row
\* code equal to c, or in c for a collection, ignorable lines included.
C10_HasRowCode ==
    op = "has_row_code" =>
        (ret <=> \E i \in 1..Len(apt.text) : apt.text[i].row_code \in arg)

----------------------------------------------------------------------------
(* class AptDat: queries and combination                                   *)

\* What a query returns: an Airport, a list of Airport or None; or the
\* exception it raises.
RetAirport(a) == [err |-> "none", kind |-> "Airport", apt |-> a, list |-> <<>>]
RetList(l) == [err |-> "none", kind |-> "list", apt |-> NoAirport, list |-> l]
RetNone == [err |-> "none", kind |-> "None", apt |-> NoAirport, list |-> <<>>]
RetRaise(e) == [err |-> e, kind |-> "None", apt |-> NoAirport, list |-> <<>>]

\* bool(r) of a query's result.
truth(r) ==
    CASE r.kind = "Airport" -> airport_bool(r.apt)
      [] r.kind = "list" -> r.list # <<>>
      [] OTHER -> FALSE

\* An id, one word or the empty str, as a text.
AsText(w) == IF w = "" THEN <<>> ELSE <<w>>

\* search_by_id comparing the ids as written, without upper().
search_by_id_case_sensitive(self_airports, apt_id) ==
    LET matches(a) == AsText(a.id) = apt_id
        found == SelectSeq(self_airports, matches)
    IN  IF found # <<>>
        THEN IF Len(found) = 1 THEN RetAirport(found[1]) ELSE RetRaise("AssertionError")
        ELSE RetNone

\* AptDat.search_by_id
search_by_id(self_airports, apt_id) ==
    LET matches(a) == upper(AsText(a.id)) = upper(apt_id)
        found == SelectSeq(self_airports, matches)
    IN  IF found # <<>>
        THEN IF Len(found) = 1 THEN RetAirport(found[1]) ELSE RetRaise("AssertionError")
        ELSE RetNone

\* AptDat.search_by_name
search_by_name(self_airports, apt_name) ==
    LET matches(a) == upper(a.name) = upper(apt_name)
    IN  RetList(SelectSeq(self_airports, matches))

IntKey(n) == [isint |-> TRUE, n |-> n, s |-> <<>>]
StrKey(s) == [isint |-> FALSE, n |-> 0, s |-> s]

\* list.__getitem__ with an int: a negative index counts from the end.
list_item(l, k) ==
    IF k >= Len(l) \/ k < -Len(l) THEN RetRaise("IndexError")
    ELSE RetAirport(l[IF k >= 0 THEN k + 1 ELSE Len(l) + k + 1])

\* __getitem__ trying the name lookup before the id lookup.
getitem_name_first(self_airports, key) ==
    IF key.isint THEN
        IF ~(key.n < Len(self_airports)) THEN RetRaise("AssertionError")
        ELSE list_item(self_airports, key.n)
    ELSE LET by_name == search_by_name(self_airports, key.s)
             by_id == search_by_id(self_airports, key.s)
         IN  IF truth(by_name) THEN by_name
             ELSE IF by_id.err # "none" \/ truth(by_id) THEN by_id
             ELSE RetRaise("KeyError")

\* AptDat.__getitem__
getitem(self_airports, key) ==
    IF key.isint THEN
        IF ~(key.n < Len(self_airports)) THEN RetRaise("AssertionError")
        ELSE list_item(self_airports, key.n)
    ELSE LET by_id == search_by_id(self_airports, key.s)
             by_name == search_by_name(self_airports, key.s)
         IN  IF by_id.err # "none" \/ truth(by_id) THEN by_id
             ELSE IF truth(by_name) THEN by_name
             ELSE RetRaise("KeyError")

\* AptDat.__concat__: the airports of the new AptDat.
concat(self_airports, other_airports) == self_airports \o other_airports

\* AptDat.__iconcat__: self.airports afterwards.
iconcat(self_airports, other_airports) == self_airports \o other_airports

\* AptDat.__add__: the airports of the new AptDat.
add(self_airports, a) == self_airports \o <<a>>

\* AptDat.__iadd__: self.airports afterwards.
iadd(self_airports, a) == Append(self_airports, a)

----------------------------------------------------------------------------
(* The container: combination, search_by_id and __getitem__.               *)

HeaderAirport(line) == from_lines(<<AptDatLine(line)>>, FromFile).apt

\* The airports combined: three read from header lines (ids KSEA and ksea
\* collide, KPAE is named KSEA, KBFI has no name) and one built directly
\* with an empty id.
AirportPool ==
    {HeaderAirport(Line_KSEA), HeaderAirport(Line_ksea), HeaderAirport(Line_KPAE),
     HeaderAirport(Line_KBFI), Airport(<<"Ghost">>, "", "", FALSE, 0, <<>>)}

IdKeys == {<<"KSEA">>, <<"ksea">>, <<"kbfi">>, <<"Heli">>, <<>>}

Keys ==
    {StrKey(k) : k \in IdKeys \union {<<"Ghost">>, <<"Lake", SP, "Sea">>}}
    \union {IntKey(n) : n \in (-MaxAirports - 1)..(MaxAirports + 1)}

InitContainer ==
    /\ apt_dat_text = <<>>
    /\ Idle

Concat ==
    /\ \E other \in SeqsUpTo(AirportPool, MaxOther) :
           /\ Len(airports) + Len(other) <= MaxAirports
           /\ arg' = [self |-> airports, other |-> other]
           /\ ret' = concat(airports, other)
    /\ op' = "__concat__"
    /\ err' = "none"
    /\ UNCHANGED <<apt_dat_text, airports, apt, file>>

IConcat ==
    /\ \E other \in SeqsUpTo(AirportPool, MaxOther) :
           /\ Len(airports) + Len(other) <= MaxAirports
           /\ arg' = [self |-> airports, other |-> other]
           /\ airports' = iconcat(airports, other)
    /\ op' = "__iconcat__"
    /\ err' = "none"
    /\ ret' = <<>>
    /\ UNCHANGED <<apt_dat_text, apt, file>>

Add ==
    /\ Len(airports) < MaxAirports
    /\ \E a \in AirportPool :
           /\ arg' = [self |-> airports, other |-> <<a>>]
           /\ ret' = add(airports, a)
    /\ op' = "__add__"
    /\ err' = "none"
    /\ UNCHANGED <<apt_dat_text, airports, apt, file>>

IAdd ==
    /\ Len(airports) < MaxAirports
    /\ \E a \in AirportPool :
           /\ arg' = [self |-> airports, other |-> <<a>>]
           /\ airports' = iadd(airports, a)
    /\ op' = "__iadd__"
    /\ err' = "none"
    /\ ret' = airports'
    /\ UNCHANGED <<apt_dat_text, apt, file>>

\* The caller goes on with the AptDat that __concat__ or __add__ returned.
Rebind ==
    /\ op \in {"__concat__", "__add__"}
    /\ airports' = ret
    /\ op' = "rebind"
    /\ UNCHANGED <<apt_dat_text, apt, file, arg, ret, err>>

SearchById ==
    /\ \E k \in IdKeys :
           /\ arg' = k
           /\ LET r == search_by_id(airports, k)
              IN  /\ ret' = [kind |-> r.kind, apt |-> r.apt, list |-> r.list]
                  /\ err' = r.err
    /\ op' = "search_by_id"
    /\ UNCHANGED <<apt_dat_text, airports, apt, file>>

GetItem ==
    /\ \E key \in Keys :
           /\ arg' = key
           /\ LET r == getitem(airports, key)
              IN  /\ ret' = [kind |-> r.kind, apt |-> r.apt, list |-> r.list]
                  /\ err' = r.err
    /\ op' = "__getitem__"
    /\ UNCHANGED <<apt_dat_text, airports, apt, file>>

NextContainer == Concat \/ IConcat \/ Add \/ IAdd \/ Rebind \/ SearchById \/ GetItem

SpecContainer == InitContainer /\ [][NextContainer]_vars

\* The positions of the airports whose id is key, ignoring case.
IdMatches(key) ==
    {i \in 1..Len(airports) : upper(AsText(airports[i].id)) = upper(key)}

\* The positions of the airports whose name is key, ignoring case.
NameMatches(key) ==
    {i \in 1..Len(airports) : upper(airports[i].name) = upper(key)}

Returns(kind) == err = "none" /\ ret.kind = kind

\* The result is what the id lookup gives when some id matches: the one
\* match, or the integrity violation for several.
IdLookupResult(key) ==
    IF Cardinality(IdMatches(key)) = 1
    THEN Returns("Airport") /\ \E i \in IdMatches(key) : ret.apt = airports[i]
    ELSE err = "AssertionError"

\* The result is the list of the airports whose name matches, in order.
NameLookupResult(key) ==
    /\ Returns("list")
    /\ Len(ret.list) = Cardinality(NameMatches(key))
    /\ \A i \in 1..Len(ret.list) :
           \E j \in NameMatches(key) :
               /\ ret.list[i] = airports[j]
               /\ Cardinality({h \in NameMatches(key) : h < j}) = i - 1

\* C8: the combination operations never fail and keep every airport in
\* place, colliding ids included; search_by_id(k) then returns the one
\* airport whose id is k ignoring case, None when there is none, and fails
\* when there are several.
C8_SearchByIdAfterCombining ==
    /\ op \in {"__concat__", "__add__"} =>
           err = "none" /\ ret = arg.self \o arg.other /\ airports = arg.self
    /\ op \in {"__iconcat__", "__iadd__"} =>
           err = "none" /\ airports = arg.self \o arg.other
    /\ op = "search_by_id" =>
           IF IdMatches(arg) = {} THEN Returns("None")
           ELSE IdLookupResult(arg)

\* A lookup by a key of another case finds the one match, after a
\* combination brought in an airport twice elsewhere.
C8_Witness ==
    /\ op = "search_by_id"
    /\ Returns("Airport")
    /\ AsText(ret.apt.id) # arg
    /\ Len(airports) = 3
    /\ \E i, j \in 1..Len(airports) : i # j /\ airports[i] = airports[j]

\* An int key gives the airport at that position, counted from the end for
\* a negative key, and fails outside the range.
IntItem(k) ==
    IF -Len(airports) <= k /\ k < Len(airports)
    THEN Returns("Airport")
         /\ ret.apt = airports[IF k >= 0 THEN k + 1 ELSE Len(airports) + k + 1]
    ELSE err \in {"AssertionError", "IndexError"}

====
